---- MODULE Spec2Model ----
(***************************************************************************)
(* db-setup: an interactive wizard that provisions a PostgreSQL database   *)
(* and writes its connection string into an environment file.              *)
(*                                                                         *)
(* Text is modelled as a sequence of one-character strings.  File content  *)
(* is a sequence of byte tokens: an ASCII character stands for its byte,   *)
(* "xFF" for a byte that is not valid UTF-8, and "uFFFD" for the encoding  *)
(* (EF BF BD) of the replacement character U+FFFD.                         *)
(***************************************************************************)
EXTENDS Integers, Sequences, FiniteSets, TLC

\* ------------------------------------------------------------------ bounds

\* Lines of initial file content drawn for the upsert specification.
MaxLines == 2

\* Characters that follow a prefix in the inputs of the validators.
MaxSuffix == 2

\* ------------------------------------------------------------ text helpers

LF == "\n"

CR == "\r"

\* Line terminators of ECMAScript regular expressions: they bound "." and,
\* under the m flag, "^" and "$".
LineTerminators == {LF, CR, "u2028", "u2029"}

RECURSIVE Concat(_)
Concat(ss) == IF ss = <<>> THEN <<>> ELSE Head(ss) \o Concat(Tail(ss))

\* String.prototype.startsWith, and the same test at position i.
IsPrefixAt(s, i, p) ==
  /\ i + Len(p) - 1 <= Len(s)
  /\ \A j \in 1..Len(p) : s[i + j - 1] = p[j]

StartsWith(s, p) == IsPrefixAt(s, 1, p)

EndsWith(s, p) == Len(p) <= Len(s) /\ IsPrefixAt(s, Len(s) - Len(p) + 1, p)

\* String.prototype.trim() leaves a string of length zero: only white space.
WhiteSpace == {" ", "\t", LF, CR}

IsBlank(s) == \A i \in 1..Len(s) : s[i] \in WhiteSpace

Min(S) == CHOOSE x \in S : \A y \in S : x <= y

\* readFileSync(path, "utf-8"): bytes that are not valid UTF-8 decode to
\* U+FFFD.
DecodeUtf8(bytes) ==
  [i \in 1..Len(bytes) |-> IF bytes[i] = "xFF" THEN "uFFFD" ELSE bytes[i]]

\* writeFileSync(path, text): every character of a decoded text has an
\* encoding, U+FFFD is written as EF BF BD.
EncodeUtf8(text) == text

\* The lines of a text, split at line terminators.
RECURSIVE SplitLines(_, _)
SplitLines(s, cur) ==
  IF s = <<>> THEN <<cur>>
  ELSE IF Head(s) \in LineTerminators
       THEN <<cur>> \o SplitLines(Tail(s), <<>>)
       ELSE SplitLines(Tail(s), Append(cur, Head(s)))

Lines(s) == SplitLines(s, <<>>)

\* ------------------------------------------------------------- constants

pg == <<"p", "o", "s", "t", "g", "r", "e", "s">>

pgUrl == pg \o <<":", "/", "/">>

pgqlUrl == pg \o <<"q", "l", ":", "/", "/">>

sectionComment ==
  <<"#", " ", "D", "a", "t", "a", "b", "a", "s", "e", " ",
    "C", "o", "n", "f", "i", "g", "u", "r", "a", "t", "i", "o", "n">>

\* --------------------------------------------------------- env.ts: regexes

\* RegExp(`^${variableName}=`, "m").test(content): the positions where the
\* pattern matches.
keyPrefixMatches(content, variableName) ==
  { i \in 1..Len(content) :
      /\ i = 1 \/ content[i - 1] \in LineTerminators
      /\ IsPrefixAt(content, i, variableName \o <<"=">>) }

\* The same test without the m flag: "^" only at the start of the text.
existsRegexTestFirstLineOnly(content, variableName) ==
  StartsWith(content, variableName \o <<"=">>)

existsRegexTest(content, variableName) ==
  keyPrefixMatches(content, variableName) # {}

\* RegExp(`^${variableName}=.*$`, "m"): a match starts at i and ends at e
\* when "^KEY=" matches at i, ".*" takes the characters up to e, none of
\* them a line terminator, and "$" holds after e (end of text, or a line
\* terminator follows).  ".*" is greedy: e is the largest such end.
variableRegexEnds(content, variableName, i) ==
  { e \in (i + Len(variableName))..Len(content) :
      /\ \A j \in (i + Len(variableName) + 1)..e :
            content[j] \notin LineTerminators
      /\ e = Len(content) \/ content[e + 1] \in LineTerminators }

variableRegexMatches(content, variableName) ==
  { i \in keyPrefixMatches(content, variableName) :
      variableRegexEnds(content, variableName, i) # {} }

variableRegexTest(content, variableName) ==
  variableRegexMatches(content, variableName) # {}

\* databaseUrl.replace(/\$/g, "$$$$"): the replacement text "$$$$" stands
\* for two dollar signs, so every "$" is doubled.
RECURSIVE escapeDollar(_)
escapeDollar(url) ==
  IF url = <<>> THEN <<>>
  ELSE IF Head(url) = "$"
       THEN <<"$", "$">> \o escapeDollar(Tail(url))
       ELSE <<Head(url)>> \o escapeDollar(Tail(url))

\* The replacement-text patterns of String.prototype.replace for a regex
\* without capture groups: "$$" is "$", "$&" the match, "$`" the text before
\* it, "$'" the text after it; any other "$" stands for itself.
RECURSIVE expandReplacement(_, _, _, _)
expandReplacement(r, before, matched, after) ==
  IF r = <<>> THEN <<>>
  ELSE IF Head(r) = "$" /\ Len(r) >= 2
       THEN LET c == r[2]
                rest == SubSeq(r, 3, Len(r))
            IN  CASE c = "$" -> <<"$">> \o expandReplacement(rest, before, matched, after)
                  [] c = "&" -> matched \o expandReplacement(rest, before, matched, after)
                  [] c = "`" -> before \o expandReplacement(rest, before, matched, after)
                  [] c = "'" -> after \o expandReplacement(rest, before, matched, after)
                  [] OTHER   -> <<"$">> \o expandReplacement(Tail(r), before, matched, after)
       ELSE <<Head(r)>> \o expandReplacement(Tail(r), before, matched, after)

\* envContent.replace(variableRegex, `${variableName}=${escapedUrl}`): the
\* regex has no g flag, so only the first match is replaced.
replaceVariable(content, variableName, escapedUrl) ==
  LET i == Min(variableRegexMatches(content, variableName))
      ends == variableRegexEnds(content, variableName, i)
      e == CHOOSE x \in ends : \A y \in ends : y <= x
      before == SubSeq(content, 1, i - 1)
      matched == SubSeq(content, i, e)
      after == SubSeq(content, e + 1, Len(content))
  IN  before
        \o expandReplacement(variableName \o <<"=">> \o escapedUrl,
                             before, matched, after)
        \o after

\* The append branch: a newline first when the text is non-empty and does
\* not end in one, then the template literal
\* `\n# Database Configuration\n${variableName}=${escapedUrl}\n`.
appendVariable(content, variableName, escapedUrl) ==
  (IF Len(content) > 0 /\ ~EndsWith(content, <<LF>>)
   THEN content \o <<LF>> ELSE content)
    \o <<LF>> \o sectionComment \o <<LF>>
    \o variableName \o <<"=">> \o escapedUrl \o <<LF>>

\* The text writeDatabaseUrl writes to the target: envContent is the decoded
\* prior content, or "" when the file does not exist.
updatedContent(envContent, variableName, databaseUrl) ==
  IF variableRegexTest(envContent, variableName)
  THEN replaceVariable(envContent, variableName, escapeDollar(databaseUrl))
  ELSE appendVariable(envContent, variableName, escapeDollar(databaseUrl))

\* A validator that only looks at the prefix, as String.startsWith would.
validateConnectionStringPrefixOnly(url) ==
  StartsWith(url, pgUrl) \/ StartsWith(url, pgqlUrl)

\* validateConnectionString: /^postgres(ql)?:\/\/.+/ without flags: one of
\* the two prefixes at the start, then at least one character that is not
\* a line terminator.
validateConnectionString(url) ==
  \/ /\ StartsWith(url, pgUrl)
     /\ Len(url) > Len(pgUrl)
     /\ url[Len(pgUrl) + 1] \notin LineTerminators
  \/ /\ StartsWith(url, pgqlUrl)
     /\ Len(url) > Len(pgqlUrl)
     /\ url[Len(pgqlUrl) + 1] \notin LineTerminators

\* ------------------------------------------------------------ file system

\* A path holds a file with its bytes, or nothing.
File(bytes) == [exists |-> TRUE, content |-> bytes]

NoFile == [exists |-> FALSE, content |-> <<>>]

\* path.join(process.cwd(), ".vercel-temp-project"), by its package.json.
tempProjectFile == ".vercel-temp-project/package.json"

Paths == {".env", ".env.backup", ".env.example", ".env.local",
          ".env.local.backup", tempProjectFile}

\* `${envPath}.backup`
backupPath(envPath) ==
  CASE envPath = ".env" -> ".env.backup"
    [] envPath = ".env.local" -> ".env.local.backup"
    [] envPath = "config/.env" -> "config/.env.backup"

\* writeFileSync(path, text): the file holds the encoded text; a write that
\* fails when the file is opened changes nothing, one that fails after the
\* file was opened for writing leaves it truncated.
WriteOutcomes == {"ok", "fail", "truncated"}

\* path.dirname of a path resolved against the working directory, which is
\* written "." here.
dirname(path) ==
  CASE path \in {"config/.env", "config/.env.backup"} -> "config"
    [] OTHER -> "."

\* existsSync(dir): the working directory exists, another directory when
\* the file system holds it.
dirExists(f, dir) == dir = "." \/ f[dir].exists

\* The ways a write can end: in a directory that does not exist the file
\* cannot be opened.
writeOutcomes(f, path) ==
  IF dirExists(f, dirname(path)) THEN WriteOutcomes ELSE {"fail"}

writeFileSync(f, path, text, outcome) ==
  CASE outcome = "ok" -> [f EXCEPT ![path] = File(EncodeUtf8(text))]
    [] outcome = "fail" -> f
    [] outcome = "truncated" -> [f EXCEPT ![path] = File(<<>>)]

\* A copy made whenever the example exists, over an existing .env too.
initializeEnvFileAlways(f, copyOk) ==
  IF f[".env.example"].exists /\ copyOk
  THEN [f EXCEPT ![".env"] = f[".env.example"]]
  ELSE f

\* A copy in the other direction: a missing example made from .env.
initializeEnvFileReversed(f, copyOk) ==
  IF f[".env"].exists /\ ~f[".env.example"].exists /\ copyOk
  THEN [f EXCEPT ![".env.example"] = f[".env"]]
  ELSE f

\* initializeEnvFile: copyFileSync(".env.example", ".env") when the example
\* exists and .env does not; a failed copy is reported and ignored.
initializeEnvFile(f, copyOk) ==
  IF f[".env.example"].exists /\ ~f[".env"].exists
  THEN IF copyOk THEN [f EXCEPT ![".env"] = f[".env.example"]] ELSE f
  ELSE f

\* ------------------------------------------------------- names and inputs

DATABASE_URL ==
  <<"D", "A", "T", "A", "B", "A", "S", "E", "_", "U", "R", "L">>

Letters ==
  {"A", "B", "C", "D", "E", "F", "G", "H", "I", "J", "K", "L", "M", "N",
   "O", "P", "Q", "R", "S", "T", "U", "V", "W", "X", "Y", "Z",
   "a", "b", "c", "d", "e", "f", "g", "h", "i", "j", "k", "l", "m", "n",
   "o", "p", "q", "r", "s", "t", "u", "v", "w", "x", "y", "z"}

Digits == {"0", "1", "2", "3", "4", "5", "6", "7", "8", "9"}

\* The validator of the custom variable name prompt:
\* non-blank and /^[A-Z_][A-Z0-9_]*$/i.
variableNameValidate(v) ==
  /\ v # <<>> /\ ~IsBlank(v)
  /\ v[1] \in Letters \cup {"_"}
  /\ \A i \in 2..Len(v) : v[i] \in Letters \cup Digits \cup {"_"}

\* Names typed at the custom variable name prompt.
CustomNameInputs == { <<"K">>, <<"K", ".">>, <<>> }

\* The preset locations and names offered by the two select prompts.
PresetPaths == {".env", ".env.local"}

PresetNames == {DATABASE_URL}

\* Connection strings: valid ones, with and without "$".
urlPlain == pgUrl \o <<"u", ":", "p", "@", "h">>

urlDollar == pgqlUrl \o <<"u", ":", "$", "@", "h">>

\* What a user types at a connection string prompt.
PromptInputs ==
  { urlPlain, urlDollar, pgUrl, pg \o <<"x">>, <<"m", "y", ":", "/", "/">>,
    <<>>, <<" ">> }

\* The validator of the manual provider's prompt.
manualValidate(v) ==
  /\ ~(v = <<>> \/ IsBlank(v))
  /\ validateConnectionString(v)

\* ------------------------------------------------------------------ state

VARIABLES
  pc,           \* where the run stands
  exitCode,     \* -1 while the process runs, then its exit code
  provider,     \* the provider chosen in handleDatabaseSetup
  databaseUrl,  \* the connection string in hand
  fs,           \* the files of the working directory
  fs0,          \* history: the files when the run started
  config,       \* EnvConfig: envPath and variableName
  overwrite,    \* "notasked", or the answer to the overwrite confirmation
  envContent,   \* writeDatabaseUrl's local envContent
  preContent,   \* history: the target file when writeDatabaseUrl was called
  branch,       \* history: "replace" or "append" once the target is written
  prompt,       \* history: the last answer typed at an input prompt
  invoked,      \* history: the functions invoked, in order
  attempts,     \* Render: the poll loop's attempts
  ready,        \* Render: the poll loop's ready
  attempt,      \* Railway: the poll loop's attempt
  urlsPublic,   \* Railway: urls.public, "" for null
  checks,       \* history: status checks made by the poll loop
  readyAt,      \* history: the check that reported ready, 0 for none
  sleeps,       \* history: delays slept by the poll loop
  pollResult,   \* history: "ready", "not-ready" or "error" after the loop
  snap,         \* history: the files after each call (upsert specification)
  result,       \* the validator's verdict (validation specification)
  signal,       \* "none", "pending" once SIGINT or SIGTERM arrived, "handled"
  auth,         \* history: the session check, the login and the re-check
  created,      \* history: the creation command, its name argument
  resolved      \* history: how the connection string was looked up

flowVars == <<pc, exitCode, provider>>

fileVars == <<fs, fs0>>

envVars == <<config, overwrite, envContent, preContent, branch>>

histVars == <<prompt, invoked>>

pollVars ==
  <<attempts, ready, attempt, urlsPublic, checks, readyAt, sleeps, pollResult>>

pureVars == <<snap, result>>

sideVars == <<auth, created, resolved>>

vars ==
  <<flowVars, databaseUrl, fileVars, envVars, histVars, pollVars, pureVars,
    signal, sideVars>>

NoAuth == [session |-> "none", login |-> "none", verify |-> "none"]

NoCreated == [ran |-> FALSE, name |-> <<>>, args |-> <<>>, status |-> 0]

NoPrompt == [kind |-> "none", value |-> <<>>, accepted |-> FALSE]

NoConfig == [envPath |-> "none", variableName |-> <<>>]

\* ---------------------------------------------------------- initial state

KeyA == DATABASE_URL \o <<"=", "a">>

KeyB == DATABASE_URL \o <<"=", "b">>

\* The .env files a run may find.
RunEnvFiles ==
  { NoFile,
    File(<<>>),
    File(KeyA),
    File(KeyA \o <<LF>> \o KeyB \o <<LF>>),
    File(<<"A", "=", "b", LF>> \o KeyA \o <<LF>>),
    File(<<"A", "=", "b">>),
    File(<<"#", "xFF", LF>> \o KeyA \o <<LF>>),
    File(<<"K", "=", "a", LF>>) }

RunExampleFiles == { NoFile, File(KeyA \o <<LF>>), File(<<"A", "=", "b">>) }

RunLocalFiles == { NoFile, File(<<"K", "=", "a">>) }

RunBackupFiles == { NoFile, File(<<"o">>) }

InitFs ==
  { [p \in Paths |->
       CASE p = ".env" -> e
         [] p = ".env.example" -> x
         [] p = ".env.local" -> l
         [] p = ".env.backup" -> b
         [] p = ".env.local.backup" -> NoFile
         [] p = tempProjectFile -> NoFile] :
      e \in RunEnvFiles, x \in RunExampleFiles, l \in RunLocalFiles,
      b \in RunBackupFiles }

Init ==
  /\ pc = "main"
  /\ exitCode = -1
  /\ provider = "none"
  /\ databaseUrl = <<>>
  /\ fs \in InitFs
  /\ fs0 = fs
  /\ config = NoConfig
  /\ overwrite = "notasked"
  /\ envContent = <<>>
  /\ preContent = NoFile
  /\ branch = "none"
  /\ prompt = NoPrompt
  /\ invoked = <<>>
  /\ attempts = 0
  /\ ready = FALSE
  /\ attempt = 1
  /\ urlsPublic = <<>>
  /\ checks = 0
  /\ readyAt = 0
  /\ sleeps = 0
  /\ pollResult = "none"
  /\ snap = <<>>
  /\ result = FALSE
  /\ signal = "none"
  /\ auth = NoAuth
  /\ created = NoCreated
  /\ resolved = "none"

\* process.exit(code), or the end of main.
Exit(code) == pc' = "done" /\ exitCode' = code

\* ------------------------------------------------------------------- main

\* main: initializeEnvFile(), then handleDatabaseSetup().
InitializeEnvFile ==
  /\ pc = "main"
  /\ \E copyOk \in BOOLEAN : fs' = initializeEnvFile(fs, copyOk)
  /\ pc' = "select_provider"
  /\ UNCHANGED <<exitCode, provider, databaseUrl, fs0, envVars, histVars,
                 pollVars, pureVars, signal, sideVars>>

Providers ==
  {"neon", "supabase", "railway", "render", "vercel", "local", "manual",
   "later"}

Adapters == {"neon", "supabase", "railway", "render", "vercel", "local"}

\* A switch whose "later" case goes on to the prompts of getEnvConfig.
switchTargetsLaterConfigures(p) ==
  CASE p = "neon" -> {"setupNeon"}
    [] p = "supabase" -> {"setupSupabase"}
    [] p = "railway" -> {"setupRailway"}
    [] p = "render" -> {"setupRender", "setupRenderCli"}
    [] p = "vercel" -> {"setupVercel"}
    [] p = "local" -> {"setupLocalDocker"}
    [] p = "manual" -> {"manual_input"}
    [] p = "later" -> {"env_path"}

\* A switch whose "later" case breaks instead of returning "".
switchTargetsLaterBreaks(p) ==
  CASE p = "neon" -> {"setupNeon"}
    [] p = "supabase" -> {"setupSupabase"}
    [] p = "railway" -> {"setupRailway"}
    [] p = "render" -> {"setupRender", "setupRenderCli"}
    [] p = "vercel" -> {"setupVercel"}
    [] p = "local" -> {"setupLocalDocker"}
    [] p = "manual" -> {"manual_input"}
    [] p = "later" -> {"adapter_returned"}

\* Where the switch of handleDatabaseSetup goes for each choice: into an
\* adapter, to the manual prompt, or, for "later", back to main (return "").
\* The repository holds two setupRender: one that polls the service status
\* and one that asks for the URL.
switchTargets(p) ==
  CASE p = "neon" -> {"setupNeon"}
    [] p = "supabase" -> {"setupSupabase"}
    [] p = "railway" -> {"setupRailway"}
    [] p = "render" -> {"setupRender", "setupRenderCli"}
    [] p = "vercel" -> {"setupVercel"}
    [] p = "local" -> {"setupLocalDocker"}
    [] p = "manual" -> {"manual_input"}
    [] p = "later" -> {"main_result"}

SelectProvider ==
  /\ pc = "select_provider"
  /\ \E p \in Providers :
       /\ provider' = p
       /\ pc' \in switchTargets(p)
       /\ invoked' = IF p \in Adapters THEN Append(invoked, p) ELSE invoked
  /\ UNCHANGED <<exitCode, databaseUrl, fileVars, envVars, prompt, pollVars,
                 pureVars, signal, sideVars>>

\* case "manual": the input prompt asks again until its validator accepts.
ManualInput ==
  /\ pc = "manual_input"
  /\ \E v \in PromptInputs :
       /\ prompt' = [kind |-> "manual", value |-> v,
                     accepted |-> manualValidate(v)]
       /\ IF manualValidate(v)
          THEN databaseUrl' = v /\ pc' = "adapter_returned"
          ELSE UNCHANGED <<databaseUrl, pc>>
  /\ UNCHANGED <<exitCode, provider, fileVars, envVars, invoked, pollVars,
                 pureVars, signal, sideVars>>

\* --------------------------------------------------------------- adapters

\* The connection strings the provider tools hand back.
CliUrls == { urlPlain, urlDollar }

\* The frame of an adapter step that decides where the run goes next.
AdapterFrame ==
  UNCHANGED <<provider, fileVars, envVars, invoked, pollVars, pureVars,
              signal>>

\* An input prompt with a validator: an answer the validator rejects asks
\* the same question again, an accepted answer is the prompt's value.
Ask(kind, v, ok) == prompt' = [kind |-> kind, value |-> v, accepted |-> ok]

\* What an authentication phase saw: the exit status of the session check,
\* of the login it started ("none": not started) and of a check made after
\* the login ("none": not made).
Auth(s, l, v) == [session |-> s, login |-> l, verify |-> v]

\* A creation command with the accepted name, the names in its argv and
\* its exit status.
Creation(name, args) ==
  [ran |-> TRUE, name |-> name, args |-> args, status |-> 0]

CreationExit(name, args, status) ==
  [Creation(name, args) EXCEPT !.status = status]

\* The exit statuses of a command: zero, or not.
ExitStatuses == {0, 1}

\* checkNeonAuth: `neonctl me`; on failure `neonctl auth`, whose failure is
\* process.exit(1), then `neonctl me` again, whose failure is
\* process.exit(1).
NeonAuthRuns ==
  { Auth("ok", "none", "none"), Auth("fail", "nonzero", "none"),
    Auth("fail", "zero", "ok"), Auth("fail", "zero", "fail") }

checkNeonAuth(a) == a.session = "ok" \/ (a.login = "zero" /\ a.verify = "ok")

\* setupNeon up to its prompts: checkNeonAuth.
SetupNeon ==
  /\ pc = "setupNeon"
  /\ \E a \in NeonAuthRuns :
       /\ auth' = a
       /\ IF checkNeonAuth(a)
          THEN pc' = "neon_name" /\ UNCHANGED exitCode
          ELSE Exit(1)
  /\ UNCHANGED <<databaseUrl, prompt, created, resolved>>
  /\ AdapterFrame

\* getConnectionString: `neonctl connection-string`; a non-zero status, or
\* an output that is neither a postgresql:// string nor JSON with a
\* connection_uri, is process.exit(1).
NeonConnectionString ==
  /\ pc = "neon_conn"
  /\ \/ Exit(1) /\ resolved' = "failed" /\ UNCHANGED databaseUrl
     \/ /\ databaseUrl' \in CliUrls
        /\ resolved' = "ok"
        /\ pc' = "adapter_returned"
        /\ UNCHANGED exitCode
  /\ UNCHANGED <<prompt, auth, created>>
  /\ AdapterFrame

\* checkSupabaseAuth: `supabase orgs list`; on failure `supabase login`,
\* whose status is not looked at.  getOrCreateSupabaseOrg then runs
\* `supabase orgs list` again: a non-zero status is process.exit(1).
SupabaseAuthRuns ==
  { Auth(s, l, v) : s \in {"ok", "fail"}, l \in {"none", "zero", "nonzero"},
                    v \in {"ok", "fail"} }
    \ { a \in [session : {"ok", "fail"}, login : {"none", "zero", "nonzero"},
               verify : {"ok", "fail"}] : (a.session = "ok") # (a.login = "none") }

getOrCreateSupabaseOrg(a) == a.verify = "ok"

\* setupSupabase up to its name prompt: checkSupabaseAuth and
\* getOrCreateSupabaseOrg (a declined or failed creation of an organisation
\* is process.exit(1)).
SetupSupabase ==
  /\ pc = "setupSupabase"
  /\ \E a \in SupabaseAuthRuns :
       /\ auth' = a
       /\ IF getOrCreateSupabaseOrg(a)
          THEN \/ pc' = "supabase_name" /\ UNCHANGED exitCode
               \/ Exit(1)
          ELSE Exit(1)
  /\ UNCHANGED <<databaseUrl, prompt, created, resolved>>
  /\ AdapterFrame

\* setupLocalDocker: docker --version, docker run, then the URL built from
\* the generated password.
SetupLocalDocker ==
  /\ pc = "setupLocalDocker"
  /\ \/ Exit(1) /\ UNCHANGED <<databaseUrl, created>>
     \/ \E status \in ExitStatuses :
          /\ created' = CreationExit(<<>>, <<>>, status)
          /\ IF status # 0
             THEN Exit(1) /\ UNCHANGED databaseUrl
             ELSE /\ databaseUrl' = urlPlain
                  /\ pc' = "adapter_returned"
                  /\ UNCHANGED exitCode
  /\ UNCHANGED <<prompt, auth, resolved>>
  /\ AdapterFrame

\* Names typed at a name prompt.
maxNameLength == 64

NameInputs ==
  { <<"m", "y", "-", "p", "r", "o", "j", "e", "c", "t", "-", "1">>,
    <<"M", "y", " ", "P", "r", "o", "j", "e", "c", "t", "!">>,
    <<"a", "_", "b">>,
    [i \in 1..(maxNameLength + 1) |-> "a"],
    <<" ">>,
    <<>> }

LowerLetters ==
  {"a", "b", "c", "d", "e", "f", "g", "h", "i", "j", "k", "l", "m", "n",
   "o", "p", "q", "r", "s", "t", "u", "v", "w", "x", "y", "z"}

\* The validator of the database name prompts: non-blank and
\* /^[a-z0-9-]+$/ (Vercel: /^[a-z0-9-_]+$/).
nameValidate(v, extra) ==
  /\ v # <<>> /\ ~IsBlank(v)
  /\ \A i \in 1..Len(v) : v[i] \in LowerLetters \cup Digits \cup {"-"} \cup extra

\* The validator of the project name prompts of Neon and Supabase: the
\* same, and at most 64 characters.
projectNameValidate(v) ==
  /\ v # <<>> /\ ~IsBlank(v)
  /\ Len(v) <= maxNameLength
  /\ \A i \in 1..Len(v) : v[i] \in LowerLetters \cup Digits \cup {"-"}

\* A createNeonProject that goes on whatever the creation returned.
createNeonProjectNeverFailed(status) == FALSE

\* createNeonProject: if (createResult.status !== 0) process.exit(1)
createNeonProjectFailed(status) == status # 0

\* The region select and the name prompt of setupNeon, then
\* createNeonProject: `neonctl projects create --name <name>`; a failed
\* creation, or a project that the list does not show, is process.exit(1).
NeonName ==
  /\ pc = "neon_name"
  /\ \E v \in NameInputs :
       /\ Ask("neon_name", v, projectNameValidate(v))
       /\ IF projectNameValidate(v)
          THEN \E status \in ExitStatuses :
                 /\ created' = CreationExit(v, <<v>>, status)
                 /\ IF createNeonProjectFailed(status)
                    THEN Exit(1)
                    ELSE \/ Exit(1)
                         \/ pc' = "neon_conn" /\ UNCHANGED exitCode
          ELSE UNCHANGED <<pc, exitCode, created>>
  /\ UNCHANGED <<databaseUrl, auth, resolved>>
  /\ AdapterFrame

\* The name prompt of setupSupabase, then createSupabaseProject:
\* `supabase projects create <name>`; a failed creation, or a project that
\* the list does not show, is process.exit(1); else the URL is built from
\* the project and the generated password.
SupabaseName ==
  /\ pc = "supabase_name"
  /\ \E v \in NameInputs :
       /\ Ask("supabase_name", v, projectNameValidate(v))
       /\ IF projectNameValidate(v)
          THEN \E status \in ExitStatuses :
                 /\ created' = CreationExit(v, <<v>>, status)
                 /\ IF status # 0
                    THEN Exit(1) /\ UNCHANGED databaseUrl
                    ELSE \/ Exit(1) /\ UNCHANGED databaseUrl
                         \/ /\ databaseUrl' = urlPlain
                            /\ pc' = "adapter_returned"
                            /\ UNCHANGED exitCode
          ELSE UNCHANGED <<pc, exitCode, created, databaseUrl>>
  /\ UNCHANGED <<auth, resolved>>
  /\ AdapterFrame

\* ---- Render, polling the service status (render.ts)

maxAttempts == 60

\* checkRenderAuth, checkVercelAuth: whoami; on failure login, and no
\* check after it.
LoginAuthRuns ==
  { Auth("ok", "none", "none"), Auth("fail", "zero", "none"),
    Auth("fail", "nonzero", "none") }

checkLoginAuth(a) == a.session = "ok" \/ a.login = "zero"

\* ensureRenderCli: a missing tool is process.exit(1).  checkRenderAuth: a
\* failed login is process.exit(1).
RenderEnsure ==
  /\ pc = "setupRender"
  /\ \/ Exit(1) /\ UNCHANGED auth
     \/ \E a \in LoginAuthRuns :
          /\ auth' = a
          /\ IF checkLoginAuth(a)
             THEN pc' = "render_region" /\ UNCHANGED exitCode
             ELSE Exit(1)
  /\ UNCHANGED <<databaseUrl, prompt, created, resolved>>
  /\ AdapterFrame

RenderRegion ==
  /\ pc = "render_region"
  /\ pc' = "render_name"
  /\ UNCHANGED <<exitCode, databaseUrl, prompt, sideVars>>
  /\ AdapterFrame

\* The name prompt, then createRenderDatabase up to its loop: a failed
\* creation or an answer that is no JSON is process.exit(1).
RenderName ==
  /\ pc = "render_name"
  /\ \E v \in NameInputs :
       /\ Ask("render_name", v, nameValidate(v, {}))
       /\ IF nameValidate(v, {})
          THEN \E status \in ExitStatuses :
                 /\ created' = CreationExit(v, <<v>>, status)
                 /\ IF status # 0
                    THEN Exit(1)
                    ELSE \/ Exit(1)
                         \/ pc' = "render_poll" /\ UNCHANGED exitCode
          ELSE UNCHANGED <<pc, exitCode, created>>
  /\ UNCHANGED <<databaseUrl, auth, resolved>>
  /\ AdapterFrame

\* The loop test off by one, and the loop test that forgets ready.
renderLoopTestOffByOne(isReady, n) == ~isReady /\ n <= maxAttempts

renderLoopTestIgnoresReady(isReady, n) == n < maxAttempts

\* while (!ready && attempts < maxAttempts)
renderLoopTest(isReady, n) == ~isReady /\ n < maxAttempts

\* What `render services get` answers: the service is available, it is not
\* yet, the command fails, or it prints something JSON.parse rejects.
StatusReplies == {"available", "creating", "failed", "garbled"}

\* One turn of the loop: sleep, ask for the status, count the attempt.  A
\* reply that does not parse throws into the catch of createRenderDatabase,
\* which is process.exit(1).
RenderPoll ==
  /\ pc = "render_poll"
  /\ renderLoopTest(ready, attempts)
  /\ sleeps' = sleeps + 1
  /\ checks' = checks + 1
  /\ \E reply \in StatusReplies :
       IF reply = "garbled"
       THEN /\ Exit(1)
            /\ pollResult' = "error"
            /\ resolved' = "failed"
            /\ UNCHANGED <<ready, attempts, readyAt>>
       ELSE /\ ready' = (ready \/ reply = "available")
            /\ readyAt' = IF reply = "available" THEN checks' ELSE readyAt
            /\ attempts' = attempts + 1
            /\ UNCHANGED <<pc, exitCode, pollResult, resolved>>
  /\ UNCHANGED <<provider, databaseUrl, fileVars, envVars, histVars, attempt,
                 urlsPublic, pureVars, signal, auth, created>>

\* A loop whose end is never taken for a timeout.
tookTooLongNever(isReady) == FALSE

\* if (!ready): "Database took too long to provision."
tookTooLong(isReady) == ~isReady

\* The loop ends: not ready is process.exit(1).
RenderPollEnd ==
  /\ pc = "render_poll"
  /\ ~renderLoopTest(ready, attempts)
  /\ IF tookTooLong(ready)
     THEN Exit(1) /\ pollResult' = "not-ready" /\ resolved' = "failed"
     ELSE /\ pc' = "render_details"
          /\ pollResult' = "ready"
          /\ UNCHANGED <<exitCode, resolved>>
  /\ UNCHANGED <<provider, databaseUrl, fileVars, envVars, histVars, attempts,
                 ready, attempt, urlsPublic, checks, readyAt, sleeps,
                 pureVars, signal, auth, created>>

\* The poll state is dropped when the adapter returns.
DropPollState ==
  /\ attempts' = 0
  /\ ready' = FALSE
  /\ attempt' = 1
  /\ urlsPublic' = <<>>
  /\ checks' = 0
  /\ readyAt' = 0
  /\ sleeps' = 0
  /\ pollResult' = "none"

\* The details are fetched (a failure, or details that do not parse:
\* process.exit(1)) and setupRender builds the URL from them.
RenderDetails ==
  /\ pc = "render_details"
  /\ \/ Exit(1) /\ resolved' = "failed" /\ UNCHANGED <<databaseUrl, pollVars>>
     \/ /\ databaseUrl' \in CliUrls
        /\ resolved' = "ok"
        /\ pc' = "adapter_returned"
        /\ DropPollState
        /\ UNCHANGED exitCode
  /\ UNCHANGED <<provider, fileVars, envVars, histVars, pureVars, signal,
                 auth, created>>

\* ---- Railway (railway-pg.ts)

maxRetries == 5

\* What DATABASE_PUBLIC_URL holds once `railway variables --kv` lists it.
RailwayPublicUrls == { urlPlain, <<"m", "y", ":", "/", "/">> }

\* ensureAuth: `railway whoami`; on failure `railway login`, whose status
\* is not looked at; setupRailway goes on in every case.
ensureAuth(a) == TRUE

\* ensureRailwayCli (a failed install is process.exit(1)) and ensureAuth.
RailwayEnsure ==
  /\ pc = "setupRailway"
  /\ \/ Exit(1) /\ UNCHANGED auth
     \/ \E a \in LoginAuthRuns :
          /\ auth' = a
          /\ IF ensureAuth(a)
             THEN pc' = "railway_confirm" /\ UNCHANGED exitCode
             ELSE Exit(1)
  /\ UNCHANGED <<databaseUrl, prompt, created, resolved>>
  /\ AdapterFrame

\* The confirmation: declined, setupRailway returns "".  Accepted:
\* `railway init`, `railway add --database postgres` and `railway link`,
\* each process.exit(1) on failure, then the loop starts.
RailwayConfirm ==
  /\ pc = "railway_confirm"
  /\ \E shouldContinue \in BOOLEAN :
       /\ Ask("railway_confirm", <<>>, shouldContinue)
       /\ IF shouldContinue
          THEN \E status \in ExitStatuses :
                 /\ created' = CreationExit(<<>>, <<>>, status)
                 /\ IF status # 0
                    THEN Exit(1)
                    ELSE pc' = "railway_poll" /\ UNCHANGED exitCode
          ELSE pc' = "adapter_returned" /\ UNCHANGED <<exitCode, created>>
  /\ UNCHANGED <<databaseUrl, auth, resolved>>
  /\ AdapterFrame

\* for (let attempt = 1; attempt <= maxRetries; attempt++)
railwayLoopTest(n) == n <= maxRetries

\* One turn of the loop: getDatabaseUrls; a public URL breaks out of the
\* loop; otherwise sleep, unless this was the last attempt, and count.
RailwayPoll ==
  /\ pc = "railway_poll"
  /\ railwayLoopTest(attempt)
  /\ checks' = checks + 1
  /\ \E found \in {<<>>} \cup RailwayPublicUrls :
       /\ urlsPublic' = found
       /\ IF found # <<>>
          THEN /\ readyAt' = checks'
               /\ pc' = "railway_found"
               /\ UNCHANGED <<attempt, sleeps>>
          ELSE /\ sleeps' = IF attempt < maxRetries THEN sleeps + 1 ELSE sleeps
               /\ attempt' = attempt + 1
               /\ UNCHANGED <<pc, readyAt>>
  /\ UNCHANGED <<exitCode, provider, databaseUrl, fileVars, envVars, histVars,
                 attempts, ready, pollResult, pureVars, signal, sideVars>>

\* The loop ends, by break or by count: no public URL is process.exit(1).
RailwayPollEnd ==
  /\ \/ pc = "railway_found"
     \/ pc = "railway_poll" /\ ~railwayLoopTest(attempt)
  /\ IF urlsPublic = <<>>
     THEN Exit(1) /\ pollResult' = "not-ready" /\ resolved' = "failed"
     ELSE /\ pc' = "railway_return"
          /\ pollResult' = "ready"
          /\ resolved' = "ok"
          /\ UNCHANGED exitCode
  /\ UNCHANGED <<provider, databaseUrl, fileVars, envVars, histVars, attempts,
                 ready, attempt, urlsPublic, checks, readyAt, sleeps,
                 pureVars, signal, auth, created>>

\* return urls.public
RailwayReturn ==
  /\ pc = "railway_return"
  /\ databaseUrl' = urlsPublic
  /\ pc' = "adapter_returned"
  /\ DropPollState
  /\ UNCHANGED <<exitCode, provider, fileVars, envVars, histVars, pureVars,
                 signal, sideVars>>

\* ---- Render, asking for the URL (the second setupRender, in neon.ts)

\* The validator of setupRenderManually's prompt.
renderManualValidate(v) ==
  /\ ~(v = <<>> \/ IsBlank(v))
  /\ StartsWith(v, pgUrl) \/ StartsWith(v, pgqlUrl)

\* The validator of createRenderDatabaseCLI's prompt.
renderCliValidate(v) == v # <<>> /\ StartsWith(v, pg)

\* ensureRenderCli and checkRenderAuth: a missing tool that is not
\* installed, or a failed login, switches to the manual setup.
RenderCliEnsure ==
  /\ pc = "setupRenderCli"
  /\ \/ pc' = "render_manual" /\ UNCHANGED auth
     \/ \E a \in LoginAuthRuns :
          /\ auth' = a
          /\ pc' = IF checkLoginAuth(a) THEN "rcli_region" ELSE "render_manual"
  /\ UNCHANGED <<exitCode, databaseUrl, prompt, created, resolved>>
  /\ AdapterFrame

RenderCliRegion ==
  /\ pc = "rcli_region"
  /\ pc' = "rcli_name"
  /\ UNCHANGED <<exitCode, databaseUrl, prompt, sideVars>>
  /\ AdapterFrame

\* The name prompt, then createRenderDatabaseCLI:
\* `render services create postgres --name <name>`; a failed creation
\* throws and setupRender switches to the manual setup.
RenderCliName ==
  /\ pc = "rcli_name"
  /\ \E v \in NameInputs :
       /\ Ask("rcli_name", v, nameValidate(v, {}))
       /\ IF nameValidate(v, {})
          THEN \E status \in ExitStatuses :
                 /\ created' = CreationExit(v, <<v>>, status)
                 /\ pc' = IF status # 0 THEN "render_manual"
                                         ELSE "rcli_paste"
          ELSE UNCHANGED <<pc, created>>
  /\ UNCHANGED <<exitCode, databaseUrl, auth, resolved>>
  /\ AdapterFrame

\* createRenderDatabaseCLI: "Paste your External Database URL:".
RenderCliPaste ==
  /\ pc = "rcli_paste"
  /\ \E v \in PromptInputs :
       /\ Ask("render_cli", v, renderCliValidate(v))
       /\ IF renderCliValidate(v)
          THEN databaseUrl' = v /\ pc' = "adapter_returned"
          ELSE UNCHANGED <<databaseUrl, pc>>
  /\ UNCHANGED <<exitCode, sideVars>>
  /\ AdapterFrame

\* setupRenderManually: the browser confirmation, then the prompt.
RenderManual ==
  /\ pc = "render_manual"
  /\ pc' = "render_manual_paste"
  /\ UNCHANGED <<exitCode, databaseUrl, prompt, sideVars>>
  /\ AdapterFrame

RenderManualPaste ==
  /\ pc = "render_manual_paste"
  /\ \E v \in PromptInputs :
       /\ Ask("render_manual", v, renderManualValidate(v))
       /\ IF renderManualValidate(v)
          THEN databaseUrl' = v /\ pc' = "adapter_returned"
          ELSE UNCHANGED <<databaseUrl, pc>>
  /\ UNCHANGED <<exitCode, sideVars>>
  /\ AdapterFrame

\* ---- Vercel (vercel.ts)

\* The validator of setupVercelManually's prompt.
vercelManualValidate(v) ==
  /\ ~(v = <<>> \/ IsBlank(v))
  /\ StartsWith(v, pgUrl) \/ StartsWith(v, pgqlUrl)

\* The validator of createVercelDatabase's fallback prompt.
vercelCliValidate(v) == v # <<>> /\ StartsWith(v, pg)

\* createTempNextJsProject: the directory and its package.json.
createTempNextJsProject(f) ==
  [f EXCEPT ![tempProjectFile] = File(<<"{", "}">>)]

\* cleanupTempProject: rmSync of the directory; a failure is reported and
\* ignored.
cleanupTempProject(f, removed) ==
  IF removed THEN [f EXCEPT ![tempProjectFile] = NoFile] ELSE f

\* The frame of a Vercel step, which may write the temporary project.
VercelFrame ==
  UNCHANGED <<provider, fs0, envVars, invoked, pollVars, pureVars, signal>>

\* ensureVercelCli and checkVercelAuth: a missing tool that is not
\* installed, or a failed login, switches to the manual setup.  Then the
\* temporary project is written and linked: a failed link throws, the
\* project is cleaned up and the manual setup takes over.
VercelEnsure ==
  /\ pc = "setupVercel"
  /\ \/ pc' = "vercel_manual" /\ UNCHANGED <<auth, fs>>
     \/ \E a \in LoginAuthRuns :
          /\ auth' = a
          /\ IF checkLoginAuth(a)
             THEN \/ /\ fs' = createTempNextJsProject(fs)
                     /\ pc' = "vercel_name"
                  \/ /\ \E removed \in BOOLEAN :
                          fs' = cleanupTempProject(createTempNextJsProject(fs),
                                                   removed)
                     /\ pc' = "vercel_manual"
             ELSE pc' = "vercel_manual" /\ UNCHANGED fs
  /\ UNCHANGED <<exitCode, databaseUrl, prompt, created, resolved>>
  /\ VercelFrame

\* The name prompt, then createVercelDatabase: `vercel postgres create`,
\* which is not given the name.  A failed creation throws (clean-up, manual
\* setup); else POSTGRES_URL is read from the pulled environment (clean-up,
\* return) or, when it is not found, asked for.
VercelName ==
  /\ pc = "vercel_name"
  /\ \E v \in NameInputs :
       /\ Ask("vercel_name", v, nameValidate(v, {"_"}))
       /\ IF nameValidate(v, {"_"})
          THEN \/ /\ created' = CreationExit(v, <<>>, 1)
                  /\ pc' = "vercel_manual"
                  /\ \E removed \in BOOLEAN :
                       fs' = cleanupTempProject(fs, removed)
                  /\ UNCHANGED <<databaseUrl, resolved>>
               \/ /\ created' = Creation(v, <<>>)
                  /\ pc' = "vercel_paste"
                  /\ resolved' = "failed"
                  /\ UNCHANGED <<databaseUrl, fs>>
               \/ /\ created' = Creation(v, <<>>)
                  /\ databaseUrl' \in CliUrls
                  /\ resolved' = "ok"
                  /\ \E removed \in BOOLEAN :
                       fs' = cleanupTempProject(fs, removed)
                  /\ pc' = "adapter_returned"
          ELSE UNCHANGED <<pc, databaseUrl, created, resolved, fs>>
  /\ UNCHANGED <<exitCode, auth>>
  /\ VercelFrame

\* createVercelDatabase: "Paste your POSTGRES_URL here:", then the clean-up
\* of setupVercel.
VercelPaste ==
  /\ pc = "vercel_paste"
  /\ \E v \in PromptInputs :
       /\ Ask("vercel_cli", v, vercelCliValidate(v))
       /\ IF vercelCliValidate(v)
          THEN /\ databaseUrl' = v
               /\ \E removed \in BOOLEAN :
                    fs' = cleanupTempProject(fs, removed)
               /\ pc' = "adapter_returned"
          ELSE UNCHANGED <<databaseUrl, pc, fs>>
  /\ UNCHANGED <<exitCode, sideVars>>
  /\ VercelFrame

\* setupVercelManually: the browser confirmation, then the prompt.
VercelManual ==
  /\ pc = "vercel_manual"
  /\ pc' = "vercel_manual_paste"
  /\ UNCHANGED <<exitCode, databaseUrl, prompt, sideVars>>
  /\ AdapterFrame

VercelManualPaste ==
  /\ pc = "vercel_manual_paste"
  /\ \E v \in PromptInputs :
       /\ Ask("vercel_manual", v, vercelManualValidate(v))
       /\ IF vercelManualValidate(v)
          THEN databaseUrl' = v /\ pc' = "adapter_returned"
          ELSE UNCHANGED <<databaseUrl, pc>>
  /\ UNCHANGED <<exitCode, sideVars>>
  /\ AdapterFrame

\* The adapter's history is left behind when setupEnvironment takes over.
DropAdapterState ==
  /\ prompt' = NoPrompt
  /\ auth' = NoAuth
  /\ created' = NoCreated
  /\ resolved' = "none"

\* A setupEnvironment that hands every string to getEnvConfig.
setupEnvironmentNeverThrows(url) == FALSE

\* setupEnvironment: if (!validateConnectionString(databaseUrl)) throw; main
\* catches the error and ends the process with code 1.
setupEnvironmentThrows(url) == ~validateConnectionString(url)

\* After the switch: exit(1) without a URL; else setupEnvironment, which
\* throws on an invalid connection string (main's catch then exits 1).
SetupEnvironment ==
  /\ pc = "adapter_returned"
  /\ IF databaseUrl = <<>>
     THEN Exit(1) /\ UNCHANGED <<invoked, prompt, sideVars>>
     ELSE /\ invoked' = Append(invoked, "setupEnvironment")
          /\ IF setupEnvironmentThrows(databaseUrl)
             THEN Exit(1) /\ UNCHANGED <<prompt, sideVars>>
             ELSE pc' = "env_path" /\ DropAdapterState /\ UNCHANGED exitCode
  /\ UNCHANGED <<provider, databaseUrl, fileVars, envVars, pollVars,
                 pureVars, signal>>

\* getEnvConfig: the select of the file location.
GetEnvPath ==
  /\ pc = "env_path"
  /\ \E path \in PresetPaths : config' = [config EXCEPT !.envPath = path]
  /\ pc' = "env_variable"
  /\ UNCHANGED <<exitCode, provider, databaseUrl, fileVars, overwrite,
                 envContent, preContent, branch, histVars, pollVars,
                 pureVars, signal, sideVars>>

\* A getEnvConfig that goes back to the select of the file location.
afterVariableNameAsksAgain(f, envPath, variableName) == "env_path"

\* getEnvConfig once the name is known: an existing file that defines the
\* variable leads to the overwrite confirmation, anything else returns the
\* configuration and writeDatabaseUrl starts.
afterVariableName(f, envPath, variableName) ==
  IF /\ f[envPath].exists
     /\ existsRegexTest(DecodeUtf8(f[envPath].content), variableName)
  THEN "confirm_overwrite"
  ELSE "write_backup"

\* getEnvConfig: the select of the variable name, a preset one ...
GetEnvVariable ==
  /\ pc = "env_variable"
  /\ \E name \in PresetNames :
       /\ config' = [config EXCEPT !.variableName = name]
       /\ pc' = afterVariableName(fs, config.envPath, name)
  /\ UNCHANGED <<exitCode, provider, databaseUrl, fileVars, overwrite,
                 envContent, preContent, branch, histVars, pollVars,
                 pureVars, signal, sideVars>>

\* ... or "custom", typed at an input prompt with a validator.
GetEnvCustomVariable ==
  /\ pc = "env_variable"
  /\ \E v \in CustomNameInputs :
       /\ prompt' = [kind |-> "variable", value |-> v,
                     accepted |-> variableNameValidate(v)]
       /\ IF variableNameValidate(v)
          THEN /\ config' = [config EXCEPT !.variableName = v]
               /\ pc' = afterVariableName(fs, config.envPath, v)
          ELSE UNCHANGED <<config, pc>>
  /\ UNCHANGED <<exitCode, provider, databaseUrl, fileVars, overwrite,
                 envContent, preContent, branch, invoked, pollVars,
                 pureVars, signal, sideVars>>

\* getEnvConfig: the overwrite confirmation; declining is process.exit(0).
ConfirmOverwrite ==
  /\ pc = "confirm_overwrite"
  /\ \E shouldOverwrite \in BOOLEAN :
       IF shouldOverwrite
       THEN overwrite' = "yes" /\ pc' = "write_backup" /\ UNCHANGED exitCode
       ELSE overwrite' = "no" /\ Exit(0)
  /\ UNCHANGED <<provider, databaseUrl, fileVars, config, envContent,
                 preContent, branch, histVars, pollVars,
                 pureVars, signal, sideVars>>

\* writeDatabaseUrl, first half: read the target and write the backup.  A
\* failing write throws, and main's catch exits with code 1.
WriteBackup ==
  /\ pc = "write_backup"
  /\ invoked' = Append(invoked, "writeDatabaseUrl")
  /\ preContent' = fs[config.envPath]
  /\ IF fs[config.envPath].exists
     THEN /\ envContent' = DecodeUtf8(fs[config.envPath].content)
          /\ \E outcome \in writeOutcomes(fs, backupPath(config.envPath)) :
               /\ fs' = writeFileSync(fs, backupPath(config.envPath),
                                      envContent', outcome)
               /\ IF outcome = "ok"
                  THEN pc' = "write_target" /\ UNCHANGED exitCode
                  ELSE Exit(1)
     ELSE /\ envContent' = <<>>
          /\ pc' = "write_target"
          /\ UNCHANGED <<exitCode, fs>>
  /\ UNCHANGED <<provider, databaseUrl, fs0, config, overwrite, branch,
                 prompt, pollVars, pureVars, signal, sideVars>>

\* writeDatabaseUrl, second half: replace or append, then write the target.
WriteTarget ==
  /\ pc = "write_target"
  /\ branch' = IF variableRegexTest(envContent, config.variableName)
               THEN "replace" ELSE "append"
  /\ envContent' = updatedContent(envContent, config.variableName, databaseUrl)
  /\ \E outcome \in writeOutcomes(fs, config.envPath) :
       /\ fs' = writeFileSync(fs, config.envPath, envContent', outcome)
       /\ IF outcome = "ok"
          THEN pc' = "show" /\ UNCHANGED exitCode
          ELSE Exit(1)
  /\ UNCHANGED <<provider, databaseUrl, fs0, config, overwrite, preContent,
                 histVars, pollVars,
                 pureVars, signal, sideVars>>

\* showDatabaseUrl, then setupEnvironment and handleDatabaseSetup return.
ShowDatabaseUrl ==
  /\ pc = "show"
  /\ pc' = "main_result"
  /\ UNCHANGED <<exitCode, provider, databaseUrl, fileVars, envVars, histVars,
                 pollVars, pureVars, signal, sideVars>>

\* main after handleDatabaseSetup returned: a message for a URL, another
\* for none; the process then ends with code 0.
MainFinish ==
  /\ pc = "main_result"
  /\ Exit(0)
  /\ UNCHANGED <<provider, databaseUrl, fileVars, envVars, histVars, pollVars,
                 pureVars, signal, sideVars>>

\* ---------------------------------------------------------------- signals

\* A handler that could run in the middle of synchronous code.
awaitingAnywhere == TRUE

\* The program waits for a prompt or a timer, or main has returned: only
\* then does the event loop run the handlers of signals.  The code between
\* two waits, spawnSync and writeFileSync included, runs to its end first.
awaiting ==
  \/ pc \in {"select_provider", "manual_input", "neon_name", "supabase_name",
             "render_region", "render_name", "railway_confirm",
             "rcli_region", "rcli_name", "rcli_paste", "render_manual",
             "render_manual_paste", "vercel_name", "vercel_paste",
             "vercel_manual", "vercel_manual_paste", "env_path",
             "env_variable", "confirm_overwrite", "main_result"}
  \/ pc = "render_poll" /\ renderLoopTest(ready, attempts)
  \/ pc = "railway_poll" /\ sleeps > 0 /\ railwayLoopTest(attempt)

\* SIGINT or SIGTERM arrives while the process runs.
Interrupt ==
  /\ exitCode = -1
  /\ signal = "none"
  /\ signal' = "pending"
  /\ UNCHANGED <<flowVars, databaseUrl, fileVars, envVars, histVars, pollVars,
                 pureVars, sideVars>>

\* process.on("SIGINT" / "SIGTERM"): a message, then process.exit(0).
HandleSignal ==
  /\ exitCode = -1
  /\ signal = "pending"
  /\ awaiting
  /\ signal' = "handled"
  /\ Exit(0)
  /\ UNCHANGED <<provider, databaseUrl, fileVars, envVars, histVars, pollVars,
                 pureVars, sideVars>>

Next ==
  \/ InitializeEnvFile
  \/ SelectProvider
  \/ ManualInput
  \/ SetupNeon
  \/ NeonName
  \/ NeonConnectionString
  \/ SetupSupabase
  \/ SupabaseName
  \/ SetupLocalDocker
  \/ RenderEnsure
  \/ RenderRegion
  \/ RenderName
  \/ RenderPoll
  \/ RenderPollEnd
  \/ RenderDetails
  \/ RailwayEnsure
  \/ RailwayConfirm
  \/ RailwayPoll
  \/ RailwayPollEnd
  \/ RailwayReturn
  \/ RenderCliEnsure
  \/ RenderCliRegion
  \/ RenderCliName
  \/ RenderCliPaste
  \/ RenderManual
  \/ RenderManualPaste
  \/ VercelEnsure
  \/ VercelName
  \/ VercelPaste
  \/ VercelManual
  \/ VercelManualPaste
  \/ SetupEnvironment
  \/ GetEnvPath
  \/ GetEnvVariable
  \/ GetEnvCustomVariable
  \/ ConfirmOverwrite
  \/ WriteBackup
  \/ WriteTarget
  \/ ShowDatabaseUrl
  \/ MainFinish
  \/ Interrupt
  \/ HandleSignal

Spec == Init /\ [][Next]_vars

\* A prompt with a validator is answered with an input the validator
\* accepts.
AcceptedAnswer ==
  /\ \/ ManualInput
     \/ NeonName
     \/ SupabaseName
     \/ RenderName
     \/ RenderCliName
     \/ RenderCliPaste
     \/ RenderManualPaste
     \/ VercelName
     \/ VercelPaste
     \/ VercelManualPaste
     \/ GetEnvCustomVariable
  /\ prompt'.accepted

\* The projects in which runs are followed to their end: with or without
\* a .env that defines the variable, with or without an example.
LiveFs ==
  { f \in InitFs :
      /\ f[".env"] \in {NoFile, File(KeyA), File(<<"A", "=", "b">>)}
      /\ f[".env.example"] \in {NoFile, File(KeyA \o <<LF>>)}
      /\ ~f[".env.local"].exists
      /\ ~f[".env.backup"].exists }

InitLive == Init /\ fs \in LiveFs

\* A run in which every external command returns, the program takes its
\* next step, and every prompt is in the end answered with an input its
\* validator accepts.
SpecLive ==
  InitLive /\ [][Next]_vars /\ WF_vars(Next) /\ WF_vars(AcceptedAnswer)

\* =========================================================================
\* Properties of a run
\* =========================================================================

\* The target of the run and its backup, once getEnvConfig knows the path.
TargetKnown == config.envPath # "none"

\* writeDatabaseUrl has read the target and is past the write of the backup.
PastBackup == pc = "write_target" \/ branch # "none"

\* C3: when the target exists with content C at the call of
\* writeDatabaseUrl, the backup holds exactly C before the target is written
\* and still holds C after the call, whether the write of the target
\* succeeded or failed.
C3_BackupHoldsPriorContent ==
  PastBackup /\ preContent.exists =>
    fs[backupPath(config.envPath)] = preContent

\* C4: the replace branch of writeDatabaseUrl is taken only in a run whose
\* overwrite confirmation was asked and answered yes, and the test of
\* getEnvConfig and the test of writeDatabaseUrl agree on every file.
C4_ReplaceOnlyWhenConfirmed ==
  /\ branch = "replace" => overwrite = "yes"
  /\ \A p \in Paths : \A n \in {DATABASE_URL, <<"K">>} :
       existsRegexTest(DecodeUtf8(fs[p].content), n)
         <=> variableRegexTest(DecodeUtf8(fs[p].content), n)

\* A confirmed run replaced a line that was not the first of its file.
C4_Witness ==
  /\ branch = "replace" /\ pc = "done" /\ exitCode = 0
  /\ ~StartsWith(preContent.content, config.variableName)

\* C5 as claimed: declining the confirmation leaves the target as it was
\* before the run started, creates no backup and exits with code 0.
C5_DeclineLeavesPreRunState ==
  overwrite = "no" =>
    /\ pc = "done" /\ exitCode = 0
    /\ fs[config.envPath] = fs0[config.envPath]
    /\ fs[backupPath(config.envPath)] = fs0[backupPath(config.envPath)]

\* The environment files, their backups and the example.
EnvPaths == Paths \ {tempProjectFile}

\* C5 as amended: declining exits with code 0, creates no backup and leaves
\* every environment file as it was before the run, except that a .env
\* missing before the run may have been created as a byte copy of
\* .env.example; a declined target that did not exist before the run is
\* that copy.
C5_DeclineLeavesStateAfterInit ==
  overwrite = "no" =>
    /\ pc = "done" /\ exitCode = 0
    /\ \A p \in EnvPaths \ {".env"} : fs[p] = fs0[p]
    /\ IF fs0[".env"].exists
       THEN fs[".env"] = fs0[".env"]
       ELSE fs[".env"] \in {NoFile, fs0[".env.example"]}
    /\ fs[config.envPath].exists
    /\ ~fs0[config.envPath].exists =>
         /\ config.envPath = ".env"
         /\ fs0[".env.example"].exists
         /\ fs[".env"] = fs0[".env.example"]

\* The confirmation was declined for a .env that the run itself created.
C5_Witness ==
  overwrite = "no" /\ config.envPath = ".env" /\ ~fs0[".env"].exists

\* The prompts that ask for a connection string.
ConnectionStringPrompts ==
  {"manual", "render_manual", "render_cli", "vercel_manual", "vercel_cli"}

\* C7: no prompt for a connection string accepts an answer that does not
\* start with postgres:// or postgresql://.
C7_PromptsRejectOtherStrings ==
  /\ prompt.kind \in ConnectionStringPrompts
  /\ ~(StartsWith(prompt.value, pgUrl) \/ StartsWith(prompt.value, pgqlUrl))
  => ~prompt.accepted

\* The maximum of the poll loop a run is in.
PollMax == IF provider = "railway" THEN maxRetries ELSE maxAttempts

InRenderLoop == pc = "render_poll"

InRailwayLoop == pc \in {"railway_poll", "railway_found"}

\* C8 as claimed: a loop whose checks never report ready makes exactly the
\* maximum number of checks and then reports not-ready, and neither attempt
\* counter ever exceeds its maximum.
C8_PollBound ==
  /\ attempts <= maxAttempts
  /\ attempt <= maxRetries
  /\ pollResult # "none" /\ readyAt = 0 =>
       checks = PollMax /\ pollResult = "not-ready"

\* C8 as amended: a loop in which every check completes and reports not
\* ready makes exactly the maximum number of checks and then reports
\* not-ready with exit code 1; no loop makes more checks than its maximum;
\* Render's attempts never exceeds 60 and Railway's attempt, which counts
\* from 1, never exceeds 6.  A Render reply that does not parse ends the run
\* with exit code 1 before the maximum.
C8_PollBoundAmended ==
  /\ checks <= PollMax
  /\ attempts <= maxAttempts
  /\ attempt <= maxRetries + 1
  /\ pollResult = "not-ready" =>
       /\ checks = PollMax /\ readyAt = 0
       /\ pc = "done" /\ exitCode = 1
  /\ pollResult = "error" =>
       /\ provider = "render" /\ readyAt = 0 /\ checks <= maxAttempts
       /\ pc = "done" /\ exitCode = 1
  /\ InRenderLoop /\ ~ready /\ checks = maxAttempts =>
       ~ENABLED RenderPoll /\ ENABLED RenderPollEnd
  /\ InRailwayLoop /\ urlsPublic = <<>> /\ checks = maxRetries =>
       ~ENABLED RailwayPoll /\ ENABLED RailwayPollEnd

\* Railway's loop gave up after its fifth check, attempt standing at 6.
C8_Witness ==
  /\ pollResult = "not-ready" /\ provider = "railway"
  /\ checks = maxRetries /\ attempt = maxRetries + 1

\* C9: once check k reports ready, the loop makes no further check and
\* reports ready: the checks made are exactly k, and k is at most the
\* maximum.
C9_PollEarlyReturn ==
  /\ readyAt # 0 =>
       /\ checks = readyAt /\ readyAt <= PollMax
       /\ pollResult \in {"none", "ready"}
       /\ ~ENABLED RenderPoll /\ ~ENABLED RailwayPoll
  /\ pollResult = "ready" => readyAt # 0 /\ checks = readyAt

\* Render's loop reported ready at its third check, before the maximum.
C9_Witness ==
  /\ provider = "render" /\ pollResult = "ready"
  /\ readyAt = 3 /\ checks = 3 /\ attempts = 3

\* C10: a run that chooses "later" invokes no adapter, neither
\* setupEnvironment nor writeDatabaseUrl, and ends with exit code 0.
C10_LaterIsSkip ==
  provider = "later" =>
    /\ invoked = <<>>
    /\ pc \in {"main_result", "done"}
    /\ pc = "done" => exitCode = 0
    /\ config = NoConfig /\ branch = "none" /\ overwrite = "notasked"
    /\ databaseUrl = <<>>

\* A run that chose "later" has ended.
C10_Witness == provider = "later" /\ pc = "done" /\ exitCode = 0

\* The files a run has created or changed so far.
ChangedPaths == { p \in Paths : fs[p] # fs0[p] }

TargetWritten ==
  branch # "none" /\ (pc \in {"show", "main_result"} \/ exitCode = 0)

\* C15: when the target does not exist at the call of writeDatabaseUrl, no
\* backup is created or changed, and the target is created holding the
\* comment line and the line KEY=value.
C15_NoBackupForNewTarget ==
  PastBackup /\ ~preContent.exists =>
    /\ fs[".env.backup"] = fs0[".env.backup"]
    /\ fs[".env.local.backup"] = fs0[".env.local.backup"]
    /\ TargetWritten =>
         fs[config.envPath] =
           File(<<LF>> \o sectionComment \o <<LF>> \o config.variableName
                  \o <<"=">> \o databaseUrl \o <<LF>>)

\* The functions invoked so far, as a set.
Invoked == { invoked[i] : i \in 1..Len(invoked) }

\* Neither the target nor a backup has been written by writeDatabaseUrl:
\* the function was not called, and the environment files are as
\* initializeEnvFile left them.
NeitherWritten ==
  /\ "writeDatabaseUrl" \notin Invoked
  /\ branch = "none"
  /\ \A p \in EnvPaths \ {".env"} : fs[p] = fs0[p]
  /\ fs[".env"] \in {fs0[".env"], fs0[".env.example"]}

\* writeDatabaseUrl ran to its end: the backup, when the target existed,
\* holds the text that was read, and the target holds the whole new text.
BothWritten ==
  /\ branch # "none"
  /\ IF preContent.exists
     THEN fs[backupPath(config.envPath)] =
            File(EncodeUtf8(DecodeUtf8(preContent.content)))
     ELSE fs[backupPath(config.envPath)] = fs0[backupPath(config.envPath)]
  /\ fs[config.envPath] =
       File(EncodeUtf8(updatedContent(DecodeUtf8(preContent.content),
                                      config.variableName, databaseUrl)))

\* C16: a signal delivered at any point of a run ends the process with
\* code 0, and at exit either neither the backup nor the target has been
\* written by this run or both have been written completely.
C16_InterruptExitsZero ==
  signal # "none" /\ pc = "done" =>
    exitCode = 0 /\ (NeitherWritten \/ BothWritten)

\* C16, amended: the handler of a signal ends the process with code 0, and
\* when it has run either neither the backup nor the target has been
\* written by this run or both have been written completely; a signal that
\* arrives while synchronous code runs stays pending, and the exit code is
\* the one of the code that ends the process first.
C16_HandledSignalExitsZero ==
  /\ signal = "handled" =>
       pc = "done" /\ exitCode = 0 /\ (NeitherWritten \/ BothWritten)
  /\ signal = "pending" /\ pc = "done" => exitCode \in {0, 1}

\* A signal was handled after writeDatabaseUrl replaced a line of a file
\* that existed.
C16_Witness ==
  signal = "handled" /\ branch = "replace" /\ preContent.exists

\* The value of the first line KEY=... of a text: the line writeDatabaseUrl
\* replaced, or the one it appended to a text that had none.
WrittenValue(content, variableName) ==
  LET i == Min(keyPrefixMatches(content, variableName))
      from == i + Len(variableName) + 1
      ends == { e \in (from - 1)..Len(content) :
                  /\ \A j \in from..e : content[j] \notin LineTerminators
                  /\ e = Len(content) \/ content[e + 1] \in LineTerminators }
  IN  SubSeq(content, from, Min(ends))

\* C17: the value of a KEY=value line written to the environment file
\* satisfies validateConnectionString; a result of an adapter that fails the
\* validation is rejected by setupEnvironment before getEnvConfig and
\* writeDatabaseUrl, the run ends with code 1, and neither the target nor a
\* backup is written.
C17_WrittenValueIsValid ==
  /\ TargetWritten =>
       /\ existsRegexTest(DecodeUtf8(fs[config.envPath].content),
                          config.variableName)
       /\ validateConnectionString(
            WrittenValue(DecodeUtf8(fs[config.envPath].content),
                         config.variableName))
  /\ \/ "writeDatabaseUrl" \in Invoked
     \/ TargetKnown
     => validateConnectionString(databaseUrl)
  /\ "setupEnvironment" \in Invoked /\ ~validateConnectionString(databaseUrl)
     => pc = "done" /\ exitCode = 1 /\ NeitherWritten /\ ~TargetKnown

\* A value with a "$" was appended to the environment file.
C17_Witness ==
  /\ TargetWritten
  /\ branch = "append"
  /\ \E i \in 1..Len(databaseUrl) : databaseUrl[i] = "$"

\* The positions of the history at which a function of a set was invoked.
InvokedAt(names) == { i \in 1..Len(invoked) : invoked[i] \in names }

\* C18: in every run at most one adapter is invoked, writeDatabaseUrl is
\* invoked at most once, and only after the selected adapter has returned a
\* connection string that is not empty and the prompts of getEnvConfig have
\* been answered.
C18_OrchestrationOrder ==
  /\ Cardinality(InvokedAt(Adapters)) <= 1
  /\ Cardinality(InvokedAt({"writeDatabaseUrl"})) <= 1
  /\ \A a \in Adapters : a \in Invoked => provider = a
  /\ \A w \in InvokedAt({"writeDatabaseUrl"}) :
       /\ databaseUrl # <<>>
       /\ TargetKnown
       /\ config.variableName # <<>>
       /\ overwrite # "no"
       /\ \E e \in InvokedAt({"setupEnvironment"}) : e < w
       /\ provider \in Adapters =>
            \E a \in InvokedAt({provider}) :
              \A e \in InvokedAt({"setupEnvironment"}) : a < e

\* An adapter was invoked and returned, the prompts were answered and
\* writeDatabaseUrl was invoked.
C18_Witness ==
  /\ provider = "railway"
  /\ invoked = <<"railway", "setupEnvironment", "writeDatabaseUrl">>
  /\ config.envPath = ".env.local"

\* The adapters with an authentication phase.
AuthAdapters == {"neon", "supabase", "railway", "render", "vercel"}

\* C19: in every adapter with an authentication phase the login is invoked
\* when the session check fails, the creation command is never run unless a
\* session was verified or the login exited with status zero, and a login
\* that exits non-zero never lets the adapter go on to the creation.
C19_AuthenticationBeforeCreation ==
  provider \in AuthAdapters =>
    /\ auth.session = "fail" => auth.login # "none"
    /\ created.ran =>
         auth.session = "ok" \/ auth.login = "zero" \/ auth.verify = "ok"
    /\ auth.login = "nonzero" => ~created.ran

\* The prompts at which an adapter asks for a pasted connection string.
PastePrompts ==
  {"rcli_paste", "render_manual_paste", "vercel_paste", "vercel_manual_paste"}

\* C20: when the resolution of the connection string fails (the query
\* command exits non-zero, its output cannot be parsed, or the poll is
\* exhausted), the adapter asks the user to paste the connection string
\* instead of ending the run: the run is at the prompt, or has been past it,
\* or was ended there by a signal.
C20_ResolutionFallsBackToPaste ==
  resolved = "failed" =>
    \/ pc \in PastePrompts
    \/ prompt.kind \in ConnectionStringPrompts
    \/ signal = "handled"

\* A poll loop has used all its attempts without readiness and has ended.
PollExhausted ==
  \/ /\ provider = "render" /\ attempts = maxAttempts /\ ~ready
     /\ pc # "render_poll"
  \/ /\ provider = "railway" /\ attempt = maxRetries + 1 /\ urlsPublic = <<>>
     /\ pc # "railway_poll"

\* C21: when a poll loop uses all its attempts without readiness, the
\* adapter returns no connection string, neither the environment file nor
\* its backup is written, and the process ends with code 1.
C21_PollTimeoutIsFatal ==
  /\ PollExhausted =>
       /\ pc = "done" /\ exitCode = 1
       /\ databaseUrl = <<>>
       /\ NeitherWritten
       /\ "setupEnvironment" \notin Invoked
  /\ pollResult = "not-ready" => PollExhausted

\* Render's loop made its last check without readiness and ended.
C21_Witness ==
  /\ provider = "render" /\ pollResult = "not-ready"
  /\ attempts = maxAttempts /\ checks = maxAttempts /\ pc = "done"

\* The confirmation of setupRailway was answered no.
RailwayDeclined == prompt.kind = "railway_confirm" /\ ~prompt.accepted

\* C23: declining the confirmation of setupRailway is a deliberate skip: no
\* init, add or link command is run, the environment file is not written,
\* and the run ends with exit code 0.
C23_RailwayDeclineIsSkip ==
  RailwayDeclined =>
    /\ ~created.ran
    /\ NeitherWritten
    /\ pc = "done" => exitCode = 0

\* A poll loop has ended, with readiness or without.
PollEnded == pollResult \in {"ready", "not-ready"} \/ pc = "railway_found"

\* C24: in each poll loop the delay is slept only between two checks: none
\* before the first check and none after the last, so a loop that has made
\* k checks has slept k-1 times.
C24_SleepsBetweenChecks ==
  /\ sleeps <= checks
  /\ PollEnded => sleeps = checks - 1

\* The creation command of the adapter exited non-zero.
CreationFailed == created.ran /\ created.status # 0

\* The run is where the commands that resolve the connection string are
\* run, or one of them has run.
Resolving ==
  \/ pc \in {"neon_conn", "render_poll", "render_details", "railway_poll",
             "railway_found", "railway_return", "rcli_paste", "vercel_paste"}
  \/ resolved # "none"
  \/ checks > 0

\* The adapter ended the process with code 1.
EndedWithFailure == pc = "done" /\ exitCode = 1

\* The adapter fell back to its manual setup: it is there, or the manual
\* prompt has been asked, or a signal ended the run on the way.
FellBackToPaste ==
  \/ pc \in {"render_manual", "render_manual_paste", "vercel_manual",
             "vercel_manual_paste"}
  \/ prompt.kind \in {"render_manual", "vercel_manual"}
  \/ signal = "handled"

AfterInitialize == pc # "main" /\ "writeDatabaseUrl" \notin Invoked

\* C29: initializeEnvFile never changes a .env that exists: it copies
\* .env.example to .env only when the example exists and .env does not, it
\* leaves the example as it is, and a failed copy does not end the run.
C29_InitializeKeepsExistingEnv ==
  /\ fs[".env.example"] = fs0[".env.example"]
  /\ AfterInitialize =>
       /\ fs0[".env"].exists => fs[".env"] = fs0[".env"]
       /\ fs[".env"] # fs0[".env"] =>
            /\ fs0[".env.example"].exists
            /\ fs[".env"] = fs0[".env.example"]
  /\ pc = "done" /\ provider = "none" => signal = "handled"

\* A run with a .env and a different .env.example is past initializeEnvFile.
C29_Witness ==
  /\ pc = "select_provider"
  /\ fs0[".env"].exists /\ fs0[".env.example"].exists
  /\ fs0[".env"] # fs0[".env.example"]

\* How far a run has come: every step that moves the run moves it to a
\* later stage.
Stage(at) ==
  CASE at = "main" -> 0
    [] at = "select_provider" -> 1
    [] at \in {"setupNeon", "setupSupabase", "setupRailway", "setupRender",
               "setupRenderCli", "setupVercel", "setupLocalDocker",
               "manual_input"} -> 2
    [] at \in {"neon_name", "supabase_name", "render_region",
               "railway_confirm", "rcli_region"} -> 3
    [] at \in {"render_name", "rcli_name", "vercel_name"} -> 4
    [] at \in {"neon_conn", "render_poll", "railway_poll", "rcli_paste",
               "vercel_paste"} -> 5
    [] at \in {"render_details", "railway_found"} -> 6
    [] at = "railway_return" -> 7
    [] at \in {"render_manual", "vercel_manual"} -> 8
    [] at \in {"render_manual_paste", "vercel_manual_paste"} -> 9
    [] at = "adapter_returned" -> 10
    [] at = "env_path" -> 11
    [] at = "env_variable" -> 12
    [] at = "confirm_overwrite" -> 13
    [] at = "write_backup" -> 14
    [] at = "write_target" -> 15
    [] at = "show" -> 16
    [] at = "main_result" -> 17
    [] at = "done" -> 18

\* A step that leaves the run where it is: a prompt asks again after an
\* answer its validator rejected, a poll loop makes one more check, or a
\* signal arrives.
RepeatingStep ==
  /\ pc' = pc
  /\ \/ prompt' # prompt /\ ~prompt'.accepted
     \/ pc \in {"render_poll", "railway_poll"} /\ checks' = checks + 1
                                              /\ checks' <= PollMax
     \/ signal = "none" /\ signal' = "pending"

\* C30: when every external command returns and every prompt is in the end
\* answered with an input its validator accepts, every run, for every
\* provider, reaches a terminal state; and nothing repeats but the bounded
\* poll loops and the prompts that ask again after a rejected input.
C30_Termination ==
  /\ <>(pc = "done")
  /\ [][Stage(pc') > Stage(pc) \/ RepeatingStep]_vars

\* A run through an adapter with a poll loop ended after writing the file.
C30_Witness ==
  /\ pc = "done" /\ exitCode = 0
  /\ provider = "render" /\ branch # "none"
  /\ invoked = <<"render", "setupEnvironment", "writeDatabaseUrl">>

\* The name prompts; each is asked at the pc of its own name.
NamePrompts ==
  {"neon_name", "supabase_name", "render_name", "rcli_name", "vercel_name"}

NameCharacters(kind) ==
  LowerLetters \cup Digits \cup {"-"}
    \cup (IF kind = "vercel_name" THEN {"_"} ELSE {})

\* C13: a name prompt accepts only non-empty names over a-z, 0-9 and "-"
\* (Vercel: "_" too); "My Project!" is rejected and "my-project-1"
\* accepted; a rejected name leaves the run at the same prompt; and the
\* creation command is given exactly the accepted name.
C13_NameValidation ==
  /\ prompt.kind \in NamePrompts =>
       /\ prompt.accepted =>
            /\ prompt.value # <<>>
            /\ \A i \in 1..Len(prompt.value) :
                 prompt.value[i] \in NameCharacters(prompt.kind)
       /\ prompt.value = <<"M", "y", " ", "P", "r", "o", "j", "e", "c", "t", "!">>
            => ~prompt.accepted
       /\ prompt.value = <<"m", "y", "-", "p", "r", "o", "j", "e", "c", "t",
                           "-", "1">>
            => prompt.accepted
       /\ ~prompt.accepted /\ exitCode = -1 => pc = prompt.kind
  /\ created.ran /\ provider \in {"neon", "supabase", "render", "vercel"} =>
       created.args = <<created.name>>

\* =========================================================================
\* writeDatabaseUrl as a function, called several times in a row
\* =========================================================================

\* Calls of writeDatabaseUrl made in a row.
MaxCalls == 2

\* A writeDatabaseUrl that leaves a backup that exists as it is.
writeDatabaseUrlKeepsBackup(f, url, cfg) ==
  LET target == f[cfg.envPath]
      text == IF target.exists THEN DecodeUtf8(target.content) ELSE <<>>
      backedUp == IF target.exists /\ ~f[backupPath(cfg.envPath)].exists
                  THEN writeFileSync(f, backupPath(cfg.envPath), text, "ok")
                  ELSE f
  IN  writeFileSync(backedUp, cfg.envPath,
                    updatedContent(text, cfg.variableName, url), "ok")

\* A whole call of writeDatabaseUrl in which every write succeeds: the
\* backup of an existing target, then the target.
writeDatabaseUrl(f, url, cfg) ==
  LET target == f[cfg.envPath]
      text == IF target.exists THEN DecodeUtf8(target.content) ELSE <<>>
      backedUp == IF target.exists
                  THEN writeFileSync(f, backupPath(cfg.envPath), text, "ok")
                  ELSE f
  IN  writeFileSync(backedUp, cfg.envPath,
                    updatedContent(text, cfg.variableName, url), "ok")

\* Lines a target file is made of.
UpsertLines ==
  { <<>>, KeyA, DATABASE_URL \o <<"=">>, <<"A", "=", "b">>,
    <<" ">> \o KeyA, <<"#", "xFF">>, <<"x", CR>> \o KeyB }

RECURSIVE JoinLines(_)
JoinLines(ls) ==
  IF ls = <<>> THEN <<>>
  ELSE IF Len(ls) = 1 THEN ls[1]
  ELSE ls[1] \o <<LF>> \o JoinLines(Tail(ls))

UpsertFiles ==
  {NoFile} \cup
  { File(JoinLines(ls) \o t) :
      ls \in UNION { [1..n -> UpsertLines] : n \in 0..MaxLines },
      t \in { <<>>, <<LF>> } }

UpsertUrls == { urlPlain, urlDollar, pgUrl \o <<"$", "&">> }

InitUpsert ==
  /\ pc = "upsert"
  /\ exitCode = -1
  /\ provider = "none"
  /\ databaseUrl \in UpsertUrls
  /\ \E file \in UpsertFiles :
       fs = [p \in Paths |-> IF p = ".env" THEN file ELSE NoFile]
  /\ fs0 = fs
  /\ config = [envPath |-> ".env", variableName |-> DATABASE_URL]
  /\ overwrite = "notasked"
  /\ envContent = <<>>
  /\ preContent = NoFile
  /\ branch = "none"
  /\ prompt = NoPrompt
  /\ invoked = <<>>
  /\ attempts = 0
  /\ ready = FALSE
  /\ attempt = 1
  /\ urlsPublic = <<>>
  /\ checks = 0
  /\ readyAt = 0
  /\ sleeps = 0
  /\ pollResult = "none"
  /\ snap = <<>>
  /\ result = FALSE
  /\ signal = "none"
  /\ auth = NoAuth
  /\ created = NoCreated
  /\ resolved = "none"

UpsertCall ==
  /\ pc = "upsert"
  /\ Len(snap) < MaxCalls
  /\ fs' = writeDatabaseUrl(fs, databaseUrl, config)
  /\ snap' = Append(snap, fs')
  /\ UNCHANGED <<flowVars, databaseUrl, fs0, envVars, histVars, pollVars,
                 result,
                 signal, sideVars>>

SpecUpsert == InitUpsert /\ [][UpsertCall]_vars

\* The lines of a file that equal a text, and those that define a variable.
LinesEqual(bytes, text) ==
  { i \in 1..Len(Lines(bytes)) : Lines(bytes)[i] = text }

DefiningLines(bytes, variableName) ==
  { i \in 1..Len(Lines(bytes)) :
      StartsWith(Lines(bytes)[i], variableName \o <<"=">>) }

RECURSIVE IsSubsequence(_, _)
IsSubsequence(a, b) ==
  IF a = <<>> THEN TRUE
  ELSE IF b = <<>> THEN FALSE
  ELSE IF Head(a) = Head(b) THEN IsSubsequence(Tail(a), Tail(b))
  ELSE IsSubsequence(a, Tail(b))

\* The lines of a file that do not define the variable, in order.
OtherLines(bytes, variableName) ==
  SelectSeq(Lines(bytes),
            LAMBDA l : ~StartsWith(l, variableName \o <<"=">>))

\* C1: after two calls in a row with the same value V, exactly one line of
\* the file equals DATABASE_URL=V and the second call changed nothing.
C1_UpsertIdempotent ==
  Len(snap) >= 2 =>
    /\ snap[2][".env"] = snap[1][".env"]
    /\ Cardinality(LinesEqual(snap[2][".env"].content,
                              DATABASE_URL \o <<"=">> \o databaseUrl)) = 1

\* C2: after a call, exactly one line of the file defines the variable and
\* every line of the prior content that did not define it is still there,
\* unchanged and in order (compared as the text the program reads).
C2_OneDefinitionOthersKept ==
  Len(snap) >= 1 =>
    /\ Cardinality(DefiningLines(snap[1][".env"].content,
                                 config.variableName)) = 1
    /\ IsSubsequence(OtherLines(DecodeUtf8(fs0[".env"].content),
                                config.variableName),
                     Lines(snap[1][".env"].content))

\* C12: a first call on a file that is not empty, does not end in a
\* newline and has no line defining the variable leaves it holding the
\* prior content, "\n\n# Database Configuration\n" and "KEY=VALUE\n", for
\* every value.
C12_NewKeyAppend ==
  /\ Len(snap) >= 1
  /\ fs0[".env"].exists
  /\ fs0[".env"].content # <<>>
  /\ ~EndsWith(fs0[".env"].content, <<LF>>)
  /\ DefiningLines(fs0[".env"].content, config.variableName) = {}
  => snap[1][".env"] =
       File(fs0[".env"].content \o <<LF, LF>> \o sectionComment \o <<LF>>
              \o config.variableName \o <<"=">> \o databaseUrl \o <<LF>>)

\* C26: after a call with the value V the text after "KEY=" on the line
\* that defines the variable is V, character for character, for every V
\* ("$", "$&" included), whether the line was replaced or appended.
C26_WriteReadRoundTrip ==
  Len(snap) >= 1 =>
    /\ existsRegexTest(DecodeUtf8(snap[1][".env"].content),
                       config.variableName)
    /\ WrittenValue(DecodeUtf8(snap[1][".env"].content),
                    config.variableName) = databaseUrl

\* ------------------------------------ calls in a row with changing values

\* Target files: those of the calls with one value, and files that define
\* the variable with one of the values written.
BackupFiles ==
  UpsertFiles \cup
  { File(DATABASE_URL \o <<"=">> \o urlPlain \o t) : t \in { <<>>, <<LF>> } }

InitBackup ==
  /\ pc = "calls"
  /\ exitCode = -1
  /\ provider = "none"
  /\ databaseUrl = <<>>
  /\ \E file \in BackupFiles :
       fs = [p \in Paths |-> IF p = ".env" THEN file ELSE NoFile]
  /\ fs0 = fs
  /\ config = [envPath |-> ".env", variableName |-> DATABASE_URL]
  /\ overwrite = "notasked"
  /\ envContent = <<>>
  /\ preContent = NoFile
  /\ branch = "none"
  /\ prompt = NoPrompt
  /\ invoked = <<>>
  /\ attempts = 0
  /\ ready = FALSE
  /\ attempt = 1
  /\ urlsPublic = <<>>
  /\ checks = 0
  /\ readyAt = 0
  /\ sleeps = 0
  /\ pollResult = "none"
  /\ snap = <<>>
  /\ result = FALSE
  /\ signal = "none"
  /\ auth = NoAuth
  /\ created = NoCreated
  /\ resolved = "none"

\* One more call, of this run or of a later one, with any value.
BackupCall ==
  /\ pc = "calls"
  /\ Len(snap) < MaxCalls
  /\ \E url \in UpsertUrls :
       /\ databaseUrl' = url
       /\ fs' = writeDatabaseUrl(fs, url, config)
  /\ snap' = Append(snap, fs')
  /\ UNCHANGED <<flowVars, fs0, envVars, histVars, pollVars, result, signal,
                 sideVars>>

SpecBackup == InitBackup /\ [][BackupCall]_vars

\* The file system before the most recent call.
BeforeLastCall == IF Len(snap) = 1 THEN fs0 ELSE snap[Len(snap) - 1]

\* The content from before the first call is held by a file.
OriginalHeld ==
  /\ fs0[".env"].exists
  /\ \E p \in Paths : fs[p] = fs0[".env"]

ValidatePrefixes ==
  { <<>>, pg, pgUrl, pgqlUrl, pg \o <<":", "/">>, pg \o <<"q", ":", "/", "/">>,
    <<" ">> \o pgUrl, <<"P">> \o Tail(pgUrl), <<"m", "y", ":", "/", "/">> }

ValidateSuffixes ==
  UNION { [1..n -> {"a", "/", LF}] : n \in 0..MaxSuffix }

ValidateInputs == { p \o x : p \in ValidatePrefixes, x \in ValidateSuffixes }

InitValidate ==
  /\ pc = "validate"
  /\ exitCode = -1
  /\ provider = "none"
  /\ databaseUrl \in ValidateInputs
  /\ fs = [p \in Paths |-> NoFile]
  /\ fs0 = fs
  /\ config = NoConfig
  /\ overwrite = "notasked"
  /\ envContent = <<>>
  /\ preContent = NoFile
  /\ branch = "none"
  /\ prompt = NoPrompt
  /\ invoked = <<>>
  /\ attempts = 0
  /\ ready = FALSE
  /\ attempt = 1
  /\ urlsPublic = <<>>
  /\ checks = 0
  /\ readyAt = 0
  /\ sleeps = 0
  /\ pollResult = "none"
  /\ snap = <<>>
  /\ result = FALSE
  /\ signal = "none"
  /\ auth = NoAuth
  /\ created = NoCreated
  /\ resolved = "none"

Validate ==
  /\ pc = "validate"
  /\ result' = validateConnectionString(databaseUrl)
  /\ pc' = "validated"
  /\ UNCHANGED <<exitCode, provider, databaseUrl, fileVars, envVars, histVars,
                 pollVars, snap,
                 signal, sideVars>>

SpecValidate == InitValidate /\ [][Validate]_vars

\* C6 as claimed: the validator accepts exactly the strings that start with
\* postgres:// or postgresql://, the bare prefixes included.
C6_AcceptsEveryPrefixed ==
  pc = "validated" =>
    (result <=> (StartsWith(databaseUrl, pgUrl)
                   \/ StartsWith(databaseUrl, pgqlUrl)))

\* What follows the first "//" of a string.
AfterSlashes(s) ==
  LET at == { i \in 1..Len(s) - 1 : s[i] = "/" /\ s[i + 1] = "/" }
  IN  IF at = {} THEN <<>> ELSE SubSeq(s, Min(at) + 2, Len(s))

\* C6 as amended: the validator accepts exactly the strings that start with
\* postgres:// or postgresql:// and go on with at least one character that
\* is not a line terminator; the bare prefixes are rejected.
C6_AcceptsPrefixedNonEmpty ==
  pc = "validated" =>
    (result <=>
       /\ StartsWith(databaseUrl, pgUrl) \/ StartsWith(databaseUrl, pgqlUrl)
       /\ AfterSlashes(databaseUrl) # <<>>
       /\ Head(AfterSlashes(databaseUrl)) \notin LineTerminators)

\* A bare prefix was validated and rejected.
C6_Witness ==
  pc = "validated" /\ databaseUrl \in {pgUrl, pgqlUrl} /\ ~result

\* =========================================================================
\* showDatabaseUrl after writeDatabaseUrl, as setupEnvironment calls them
\* =========================================================================

MaxPassword == 2

\* The least position from `from` on that holds a character of `set`, or 0.
FirstIndex(s, from, set) ==
  LET hits == { i \in from..Len(s) : s[i] \in set }
  IN  IF hits = {} THEN 0 ELSE CHOOSE i \in hits : \A j \in hits : i <= j

\* /(:\/\/)([^:]+):([^@]+)@/ matched from position i: "://", then up to the
\* next ":" (at least one character), then up to the next "@" (at least one
\* character).  [^:]+ cannot stop before the first ":" nor pass it, and
\* [^@]+ likewise, so there is one way to match from i or none.
maskColon(s, i) == FirstIndex(s, i + 3, {":"})

maskAt(s, i) ==
  IF maskColon(s, i) = 0 THEN 0 ELSE FirstIndex(s, maskColon(s, i) + 1, {"@"})

maskMatches(s, i) ==
  /\ IsPrefixAt(s, i, <<":", "/", "/">>)
  /\ maskColon(s, i) > i + 3
  /\ maskAt(s, i) > maskColon(s, i) + 1

\* databaseUrl.replace(/(:\/\/)([^:]+):([^@]+)@/, "$1$2:***@"): the leftmost
\* match is replaced, a string without a match is returned as it is.
maskedUrl(url) ==
  LET starts == { i \in 1..Len(url) : maskMatches(url, i) }
  IN  IF starts = {} THEN url
      ELSE LET i == CHOOSE x \in starts : \A y \in starts : x <= y
           IN  SubSeq(url, 1, maskColon(url, i) - 1)
                 \o <<":", "*", "*", "*", "@">>
                 \o SubSeq(url, maskAt(url, i) + 1, Len(url))

\* The line showDatabaseUrl prints: `${variableName}=${maskedUrl}`.
showDatabaseUrl(url, variableName) == variableName \o <<"=">> \o maskedUrl(url)

\* Connection strings scheme user:password@host, kept with their parts.
ShowSchemes == { pgUrl, pgqlUrl }

ShowUsers == { <<"u">>, <<"u", "v">> }

ShowPasswords == UNION { [1..n -> {"p", ":", "@"}] : n \in 1..MaxPassword }

ShowHost == <<"h", "/", "d">>

ShowFiles == { NoFile, File(KeyA \o <<LF>>) }

InitShow ==
  /\ pc = "show"
  /\ exitCode = -1
  /\ provider = "none"
  /\ \E sc \in ShowSchemes, u \in ShowUsers, pw \in ShowPasswords :
       /\ snap = [scheme |-> sc, user |-> u, password |-> pw,
                  host |-> ShowHost]
       /\ databaseUrl = sc \o u \o <<":">> \o pw \o <<"@">> \o ShowHost
  /\ \E file \in ShowFiles :
       fs = [p \in Paths |-> IF p = ".env" THEN file ELSE NoFile]
  /\ fs0 = fs
  /\ config = [envPath |-> ".env", variableName |-> DATABASE_URL]
  /\ overwrite = "notasked"
  /\ envContent = <<>>
  /\ preContent = NoFile
  /\ branch = "none"
  /\ prompt = NoPrompt
  /\ invoked = <<>>
  /\ attempts = 0
  /\ ready = FALSE
  /\ attempt = 1
  /\ urlsPublic = <<>>
  /\ checks = 0
  /\ readyAt = 0
  /\ sleeps = 0
  /\ pollResult = "none"
  /\ result = <<>>
  /\ signal = "none"
  /\ auth = NoAuth
  /\ created = NoCreated
  /\ resolved = "none"

\* The tail of setupEnvironment: writeDatabaseUrl, then showDatabaseUrl.
WriteAndShow ==
  /\ pc = "show"
  /\ fs' = writeDatabaseUrl(fs, databaseUrl, config)
  /\ result' = showDatabaseUrl(databaseUrl, config.variableName)
  /\ pc' = "shown"
  /\ UNCHANGED <<exitCode, provider, databaseUrl, fs0, envVars, histVars,
                 pollVars, snap,
                 signal, sideVars>>

SpecShow == InitShow /\ [][WriteAndShow]_vars

\* C11: the line printed for scheme user:password@host shows user:***@host
\* with nothing of the password, for passwords holding "@" or ":" too, and
\* the line written to the file holds the whole connection string.
C11_DisplayMasking ==
  pc = "shown" =>
    /\ result = DATABASE_URL \o <<"=">> \o snap.scheme \o snap.user
                  \o <<":", "*", "*", "*", "@">> \o snap.host
    /\ \E i \in 1..Len(Lines(fs[".env"].content)) :
         Lines(fs[".env"].content)[i] = DATABASE_URL \o <<"=">> \o databaseUrl

\* ------------------------------------------- getEnvConfig: the file path

\* The files and the directory of a project with a config directory.
ConfigPaths == {".env", ".env.backup", "config", "config/.env",
                "config/.env.backup"}

\* Choices of the select of the file location: two of the preset ones, and
\* "custom".
ConfigChoices == {".env", "config/.env", "custom"}

\* What a user types at the prompt of the custom path.
CustomPathInputs == {"", " ", ".env", "config/.env"}

\* The validator of the custom path: not blank, and the directory of the
\* resolved path exists.
customPathValidate(f, inputValue) ==
  /\ inputValue \notin {"", " "}
  /\ dirExists(f, dirname(inputValue))

\* A project with or without the directory config, and with or without the
\* two environment files.
InitConfigFs ==
  { [p \in ConfigPaths |->
       CASE p = ".env" -> e
         [] p = "config" -> IF d THEN File(<<>>) ELSE NoFile
         [] p = "config/.env" -> IF d THEN c ELSE NoFile
         [] OTHER -> NoFile] :
      e \in {NoFile, File(KeyA)}, d \in BOOLEAN,
      c \in {NoFile, File(KeyA), File(<<"A", "=", "b">>)} }

\* setupEnvironment has validated the connection string and calls
\* getEnvConfig.
InitConfig ==
  /\ pc = "env_path"
  /\ exitCode = -1
  /\ provider = "manual"
  /\ databaseUrl \in {urlPlain, urlDollar}
  /\ fs \in InitConfigFs
  /\ fs0 = fs
  /\ config = NoConfig
  /\ overwrite = "notasked"
  /\ envContent = <<>>
  /\ preContent = NoFile
  /\ branch = "none"
  /\ prompt = NoPrompt
  /\ invoked = <<"setupEnvironment">>
  /\ attempts = 0
  /\ ready = FALSE
  /\ attempt = 1
  /\ urlsPublic = <<>>
  /\ checks = 0
  /\ readyAt = 0
  /\ sleeps = 0
  /\ pollResult = "none"
  /\ snap = <<>>
  /\ result = FALSE
  /\ signal = "none"
  /\ auth = NoAuth
  /\ created = NoCreated
  /\ resolved = "none"

\* getEnvConfig: the select of the file location; a preset choice is taken
\* as it is, "custom" leads to the input prompt.
GetEnvPathChoice ==
  /\ pc = "env_path"
  /\ \E envPathChoice \in ConfigChoices :
       IF envPathChoice = "custom"
       THEN pc' = "env_custom_path" /\ UNCHANGED config
       ELSE /\ config' = [config EXCEPT !.envPath = envPathChoice]
            /\ pc' = "env_variable"
  /\ UNCHANGED <<exitCode, provider, databaseUrl, fileVars, overwrite,
                 envContent, preContent, branch, histVars, pollVars,
                 pureVars, signal, sideVars>>

\* getEnvConfig: the input of the custom path, asked again until its
\* validator accepts.
GetEnvCustomPath ==
  /\ pc = "env_custom_path"
  /\ \E v \in CustomPathInputs :
       /\ Ask("path", <<v>>, customPathValidate(fs, v))
       /\ IF customPathValidate(fs, v)
          THEN /\ config' = [config EXCEPT !.envPath = v]
               /\ pc' = "env_variable"
          ELSE UNCHANGED <<config, pc>>
  /\ UNCHANGED <<exitCode, provider, databaseUrl, fileVars, overwrite,
                 envContent, preContent, branch, invoked, pollVars,
                 pureVars, signal, sideVars>>

NextConfig ==
  \/ GetEnvPathChoice
  \/ GetEnvCustomPath
  \/ GetEnvVariable
  \/ GetEnvCustomVariable
  \/ ConfirmOverwrite
  \/ WriteBackup
  \/ WriteTarget
  \/ ShowDatabaseUrl
  \/ MainFinish

SpecConfig == InitConfig /\ [][NextConfig]_vars

\* C22: a missing directory of the chosen path is a validation failure for
\* every choice, custom or preset: the custom prompt asks again, and
\* writeDatabaseUrl is never called with a path whose directory does not
\* exist.
C22_MissingDirectoryIsRecoverable ==
  /\ prompt.kind = "path" /\ ~prompt.accepted => pc = "env_custom_path"
  /\ "writeDatabaseUrl" \in Invoked =>
       dirExists(fs0, dirname(config.envPath))

\* ------------------------------------- the defaults of the name prompts

\* default: "ZeroStarter-oss-db"
zeroStarterOssDb ==
  <<"Z", "e", "r", "o", "S", "t", "a", "r", "t", "e", "r", "-", "o",
  "s", "s", "-", "d", "b">>

\* default: "my-supabase-project"
mySupabaseProject ==
  <<"m", "y", "-", "s", "u", "p", "a", "b", "a", "s", "e", "-", "p",
  "r", "o", "j", "e", "c", "t">>

\* default: "zerostarter-db"
zerostarterDb ==
  <<"z", "e", "r", "o", "s", "t", "a", "r", "t", "e", "r", "-", "d",
  "b">>

\* The name prompts with a default: those of the adapters, and the one of
\* the second setupSupabase of the repository.
DefaultPrompts == NamePrompts \cup {"supabase_alt_name"}

\* The default each name prompt offers.
promptDefault(kind) ==
  CASE kind = "neon_name" -> zeroStarterOssDb
    [] kind = "supabase_name" -> zeroStarterOssDb
    [] kind = "supabase_alt_name" -> mySupabaseProject
    [] kind = "render_name" -> zerostarterDb
    [] kind = "rcli_name" -> zerostarterDb
    [] kind = "vercel_name" -> zerostarterDb

\* The validator each name prompt applies to its answer.
promptValidate(kind, v) ==
  CASE kind \in {"neon_name", "supabase_name", "supabase_alt_name"} ->
         projectNameValidate(v)
    [] kind \in {"render_name", "rcli_name"} -> nameValidate(v, {})
    [] kind = "vercel_name" -> nameValidate(v, {"_"})

\* Answers to a name prompt: the defaults, taken with the return key, and
\* typed names.
DefaultInputs ==
  NameInputs \cup {zeroStarterOssDb, mySupabaseProject, zerostarterDb,
                   <<"a", "-", "b">>, <<"A">>, <<"d", "b", "_", "1">>,
                   <<"0">>}

InitDefaults ==
  /\ pc = "name_prompt"
  /\ exitCode = -1
  /\ provider = "none"
  /\ databaseUrl = <<>>
  /\ fs = [p \in Paths |-> NoFile]
  /\ fs0 = fs
  /\ config = NoConfig
  /\ overwrite = "notasked"
  /\ envContent = <<>>
  /\ preContent = NoFile
  /\ branch = "none"
  /\ \E kind \in DefaultPrompts, v \in DefaultInputs :
       prompt = [kind |-> kind, value |-> v, accepted |-> FALSE]
  /\ invoked = <<>>
  /\ attempts = 0
  /\ ready = FALSE
  /\ attempt = 1
  /\ urlsPublic = <<>>
  /\ checks = 0
  /\ readyAt = 0
  /\ sleeps = 0
  /\ pollResult = "none"
  /\ snap = <<>>
  /\ result = FALSE
  /\ signal = "none"
  /\ auth = NoAuth
  /\ created = NoCreated
  /\ resolved = "none"

\* The prompt validates its answer.
AnswerName ==
  /\ pc = "name_prompt"
  /\ prompt' = [prompt EXCEPT
                  !.accepted = promptValidate(prompt.kind, prompt.value)]
  /\ pc' = "name_answered"
  /\ UNCHANGED <<exitCode, provider, databaseUrl, fileVars, envVars, invoked,
                 pollVars, pureVars, signal, sideVars>>

SpecDefaults == InitDefaults /\ [][AnswerName]_vars

\* C28: the default of every name prompt satisfies the validator of that
\* prompt, so that taking the default is never a validation failure.
C28_DefaultsAreValid ==
  /\ pc = "name_answered"
  /\ prompt.value = promptDefault(prompt.kind)
  => prompt.accepted

====
